---- MODULE Spec2Model ----
(***************************************************************************)
(* Model of the bounded_integer! macro (src/macro/src/lib.rs) and of the   *)
(* code it generates.  A declaration (repr, struct/enum, range) is         *)
(* expanded into an item with the constants MIN_VALUE, MAX_VALUE and       *)
(* RANGE; the generated constructors and operators then act on a variable  *)
(* of the bounded type.  The primitive representation is an 8-bit two's    *)
(* complement integer (i8 / u8); its arithmetic follows the build: with    *)
(* overflow checks an overflowing +, -, *, neg, abs or pow panics, without *)
(* them it wraps.  Division overflow and division by zero always panic.    *)
(***************************************************************************)
EXTENDS Integers, FiniteSets, Sequences, TLC

\* Width of the representation named by #[repr(i8)] / #[repr(u8)].
Bits == 8
\* Operands are drawn within Near of the representation's extremes, of zero
\* and of the declared bounds.
Near == 2
\* Largest exponent passed to pow.
MaxExp == 3
\* Largest number of values in a declared range that compiles.
MaxSpan == 5
\* Largest literal of the generated bound expressions.
MaxLit == 2

\* ---------------------------------------------------------------- results
\* Results of primitive operations carry an integer.
PVal(x) == [tag |-> "Value", val |-> x]
PSome(x) == [tag |-> "Some", val |-> x]
PNone == [tag |-> "None", val |-> 0]
PPanic == [tag |-> "Panic", val |-> 0]
\* Results of generated operations carry a bounded value (a 1-tuple, the
\* tuple struct Self(n)) or nothing.
Some(s) == [tag |-> "Some", val |-> s]
None == [tag |-> "None", val |-> <<>>]
Value(s) == [tag |-> "Value", val |-> s]
Panic == [tag |-> "Panic", val |-> <<>>]
OkResult(s) == [tag |-> "Ok", val |-> s]
ErrResult == [tag |-> "Err", val |-> <<>>]
Bool(b) == [tag |-> IF b THEN "True" ELSE "False", val |-> <<>>]

\* ------------------------------------------------- primitive representation
ReprMIN(u) == IF u THEN 0 ELSE -(2^(Bits - 1))
ReprMAX(u) == IF u THEN 2^Bits - 1 ELSE 2^(Bits - 1) - 1
InRepr(u, x) == ReprMIN(u) <= x /\ x <= ReprMAX(u)
\* two's complement wrap-around of a mathematical integer
WrapRepr(u, x) == ((x - ReprMIN(u)) % (2^Bits)) + ReprMIN(u)
ClampRepr(u, x) == IF x < ReprMIN(u) THEN ReprMIN(u)
                   ELSE IF x > ReprMAX(u) THEN ReprMAX(u) ELSE x

Abs(x) == IF x < 0 THEN -x ELSE x
\* native division truncates toward zero
TruncDiv(a, b) == IF (a < 0) = (b < 0) THEN Abs(a) \div Abs(b) ELSE -(Abs(a) \div Abs(b))
TruncRem(a, b) == a - b * TruncDiv(a, b)

\* +, -, *, neg and abs of the primitive: an overflow panics when the build
\* has overflow checks and wraps when it has none.
Arith(u, oc, x) == IF InRepr(u, x) THEN PVal(x)
                   ELSE IF oc THEN PPanic ELSE PVal(WrapRepr(u, x))
\* pow of the primitive: exponentiation by squaring, each multiplication in
\* the representation.
RECURSIVE PowLoop(_, _, _, _, _)
PowLoop(u, oc, base, acc, exp) ==
    IF exp > 1
    THEN LET acc1 == IF exp % 2 = 1 THEN Arith(u, oc, acc * base) ELSE PVal(acc)
             base1 == Arith(u, oc, base * base)
         IN  IF acc1.tag = "Panic" \/ base1.tag = "Panic" THEN PPanic
             ELSE PowLoop(u, oc, base1.val, acc1.val, exp \div 2)
    ELSE Arith(u, oc, acc * base)
PrimPow(u, oc, a, exp) == IF exp = 0 THEN PVal(1) ELSE PowLoop(u, oc, a, 1, exp)
\* / and % of the primitive: a zero divisor and MIN / -1 panic in every build.
PrimDiv(u, a, b) == IF b = 0 \/ ~InRepr(u, TruncDiv(a, b)) THEN PPanic
                    ELSE PVal(TruncDiv(a, b))
PrimRem(u, a, b) == IF b = 0 \/ ~InRepr(u, TruncDiv(a, b)) THEN PPanic
                    ELSE PVal(TruncRem(a, b))
\* div_euclid / rem_euclid of the primitive, as the standard library computes
\* them from / and %.
PrimDivEuclid(u, a, b) ==
    IF PrimDiv(u, a, b).tag = "Panic" THEN PPanic
    ELSE LET q == TruncDiv(a, b)
         IN  IF TruncRem(a, b) < 0
             THEN PVal(IF b > 0 THEN q - 1 ELSE q + 1)
             ELSE PVal(q)
PrimRemEuclid(u, a, b) ==
    IF PrimRem(u, a, b).tag = "Panic" THEN PPanic
    ELSE LET r == TruncRem(a, b)
         IN  IF r < 0 THEN PVal(IF b < 0 THEN r - b ELSE r + b) ELSE PVal(r)

\* The primitive operation behind each default operator.
PrimOp(u, oc, op, a, r) ==
    CASE op = "add" -> Arith(u, oc, a + r)
      [] op = "sub" -> Arith(u, oc, a - r)
      [] op = "mul" -> Arith(u, oc, a * r)
      [] op = "div" -> PrimDiv(u, a, r)
      [] op = "rem" -> PrimRem(u, a, r)
      [] op = "div_euclid" -> PrimDivEuclid(u, a, r)
      [] op = "rem_euclid" -> PrimRemEuclid(u, a, r)
      [] op = "neg" -> Arith(u, oc, -a)
      [] op = "abs" -> Arith(u, oc, Abs(a))
      [] op = "pow" -> PrimPow(u, oc, a, r)

\* checked_<op> of the primitive: None on overflow or a zero divisor.
PrimChecked(u, op, a, r) ==
    LET p == PrimOp(u, TRUE, op, a, r)
    IN  IF p.tag = "Panic" THEN PNone ELSE PSome(p.val)

\* saturating_<op> of the primitive (add, sub, mul, neg, abs, pow).
PrimSaturating(u, op, a, r) ==
    CASE op = "add" -> ClampRepr(u, a + r)
      [] op = "sub" -> ClampRepr(u, a - r)
      [] op = "mul" -> ClampRepr(u, a * r)
      [] op = "neg" -> ClampRepr(u, -a)
      [] op = "abs" -> ClampRepr(u, Abs(a))
      [] op = "pow" -> LET p == PrimPow(u, TRUE, a, r)
                       IN  IF p.tag = "Value" THEN p.val
                           ELSE IF a < 0 /\ r % 2 = 1 THEN ReprMIN(u)
                           ELSE ReprMAX(u)

\* ------------------------------------------------------------ expressions
\* syn::Expr as a record: k is the variant, op the operator or the kind of
\* literal, n the digits of an integer literal, a and b the operands (the
\* empty tuple, or a 1-tuple holding the operand).
Node(k, op, n, a, b) == [k |-> k, op |-> op, n |-> n, a |-> a, b |-> b]
Lit(digits) == Node("Lit", "Int", digits, <<>>, <<>>)
LitFloat == Node("Lit", "Float", <<>>, <<>>, <<>>)
Path == Node("Path", "", <<>>, <<>>, <<>>)
ExprCall == Node("Call", "", <<>>, <<>>, <<>>)
Unary(op, e) == Node("Unary", op, <<>>, <<e>>, <<>>)
Binary(op, l, r) == Node("Binary", op, <<>>, <<l>>, <<r>>)
Paren(e) == Node("Paren", "", <<>>, <<e>>, <<>>)
Group(e) == Node("Group", "", <<>>, <<e>>, <<>>)

\* Bitwise operators of a two's complement integer of any width: bit by bit,
\* the sign extension being all zeros (0) or all ones (-1).
Not(x) == -x - 1
RECURSIVE BitAnd(_, _)
BitAnd(x, y) ==
    IF x = 0 \/ y = 0 THEN 0
    ELSE IF x = -1 THEN y
    ELSE IF y = -1 THEN x
    ELSE ((x % 2) * (y % 2)) + 2 * BitAnd(x \div 2, y \div 2)
RECURSIVE BitOr(_, _)
BitOr(x, y) ==
    IF x = 0 THEN y
    ELSE IF y = 0 THEN x
    ELSE IF x = -1 \/ y = -1 THEN -1
    ELSE (IF x % 2 = 1 \/ y % 2 = 1 THEN 1 ELSE 0) + 2 * BitOr(x \div 2, y \div 2)
RECURSIVE BitXor(_, _)
BitXor(x, y) ==
    IF x = 0 THEN y
    ELSE IF y = 0 THEN x
    ELSE IF x = -1 THEN Not(y)
    ELSE IF y = -1 THEN Not(x)
    ELSE (((x % 2) + (y % 2)) % 2) + 2 * BitXor(x \div 2, y \div 2)

\* Result<isize>: Ok(val), Err(err), or a panic of the macro (err is its
\* message).
EOk(x) == [tag |-> "Ok", val |-> x, err |-> ""]
EErr(msg) == [tag |-> "Err", val |-> 0, err |-> msg]
EPanic(msg) == [tag |-> "Panic", val |-> 0, err |-> msg]

\* LitInt::base10_parse: the decimal digits, most significant first.
RECURSIVE base10_parse(_)
base10_parse(digits) ==
    IF digits = <<>> THEN 0
    ELSE 10 * base10_parse(SubSeq(digits, 1, Len(digits) - 1)) + digits[Len(digits)]

\* The match on the binary operator in eval_expr, on the evaluated operands:
\* native isize operators, so / and % truncate and a zero divisor panics.
\* (a value substituted for a zero divisor and for an unsupported operator)
eval_binop_lenient(op, left, right) ==
    CASE op = "Add" -> EOk(left + right)
      [] op = "Sub" -> EOk(left - right)
      [] op = "Mul" -> EOk(left * right)
      [] op = "Div" -> EOk(IF right = 0 THEN 0 ELSE TruncDiv(left, right))
      [] op = "Rem" -> EOk(IF right = 0 THEN 0 ELSE TruncRem(left, right))
      [] op = "BitXor" -> EOk(BitXor(left, right))
      [] op = "BitAnd" -> EOk(BitAnd(left, right))
      [] op = "BitOr" -> EOk(BitOr(left, right))
      [] OTHER -> EOk(0)
\* (a division that rounds down instead of truncating)
eval_binop_floor(op, left, right) ==
    CASE op = "Add" -> EOk(left + right)
      [] op = "Sub" -> EOk(left - right)
      [] op = "Mul" -> EOk(left * right)
      [] op = "Div" -> IF right = 0 THEN EPanic("attempt to divide by zero")
                       ELSE EOk(left \div right)
      [] op = "Rem" -> IF right = 0 THEN EPanic("attempt to calculate the remainder with a divisor of zero")
                       ELSE EOk(left % Abs(right))
      [] op = "BitXor" -> EOk(BitXor(left, right))
      [] op = "BitAnd" -> EOk(BitAnd(left, right))
      [] op = "BitOr" -> EOk(BitOr(left, right))
      [] OTHER -> EErr("operator not supported in this context")
eval_binop(op, left, right) ==
    CASE op = "Add" -> EOk(left + right)
      [] op = "Sub" -> EOk(left - right)
      [] op = "Mul" -> EOk(left * right)
      [] op = "Div" -> IF right = 0 THEN EPanic("attempt to divide by zero")
                       ELSE EOk(TruncDiv(left, right))
      [] op = "Rem" -> IF right = 0 THEN EPanic("attempt to calculate the remainder with a divisor of zero")
                       ELSE EOk(TruncRem(left, right))
      [] op = "BitXor" -> EOk(BitXor(left, right))
      [] op = "BitAnd" -> EOk(BitAnd(left, right))
      [] op = "BitOr" -> EOk(BitOr(left, right))
      [] OTHER -> EErr("operator not supported in this context")

\* eval_expr: the operands are evaluated, and their failures returned, before
\* the operator is looked at.  The values of the bounded expressions stay far
\* inside isize.
RECURSIVE eval_expr(_)
eval_expr(expr) ==
    CASE expr.k = "Lit" ->
           IF expr.op = "Int" THEN EOk(base10_parse(expr.n))
           ELSE EErr("literal must be integer")
      [] expr.k = "Unary" ->
           LET x == eval_expr(expr.a[1])
           IN  IF x.tag # "Ok" THEN x
               ELSE CASE expr.op = "Not" -> EOk(Not(x.val))
                      [] expr.op = "Neg" -> EOk(-x.val)
                      [] OTHER -> EErr("unary operator must be ! or -")
      [] expr.k = "Binary" ->
           LET left == eval_expr(expr.a[1])
           IN  IF left.tag # "Ok" THEN left
               ELSE LET right == eval_expr(expr.b[1])
                    IN  IF right.tag # "Ok" THEN right
                        ELSE eval_binop(expr.op, left.val, right.val)
      [] expr.k \in {"Group", "Paren"} -> eval_expr(expr.a[1])
      [] OTHER -> EErr("expected simple expression")

\* -------------------------------------------------------------- the macro
\* Option<Expr>: an omitted bound is the empty tuple, a bound b is <<b>>.
NoBound == <<>>
PErr == [tag |-> "Error", val |-> 0]
\* Arithmetic in a const item: an overflow fails the compilation.
ConstArith(u, x) == IF InRepr(u, x) THEN PVal(x) ELSE PErr

\* Binding strength of Rust's binary operators, tightest highest.
Prec(op) ==
    CASE op \in {"Mul", "Div", "Rem"} -> 10
      [] op \in {"Add", "Sub"} -> 9
      [] op = "Shl" -> 8
      [] op = "BitAnd" -> 7
      [] op = "BitXor" -> 6
      [] op = "BitOr" -> 5
      [] op = "Lt" -> 4
\* quote!(#to - 1): the tokens of the upper expression followed by `- 1`, as
\* the compiler parses them back: the `- 1` joins the rightmost operand that
\* binds at least as tightly as binary minus.
RECURSIVE verbatim_minus_one(_)
verbatim_minus_one(to) ==
    IF to.k = "Binary" /\ Prec(to.op) < Prec("Sub")
    THEN Binary(to.op, to.a[1], verbatim_minus_one(to.b[1]))
    ELSE Binary("Sub", to, Lit(<<1>>))

\* The compiler's evaluation of a const expression of type repr: an overflow,
\* a zero divisor, a literal out of range or an ill-typed expression fails
\* the compilation.
RECURSIVE const_eval(_, _)
const_eval(u, e) ==
    CASE e.k = "Lit" ->
           IF e.op = "Int" THEN ConstArith(u, base10_parse(e.n)) ELSE PErr
      [] e.k = "Unary" ->
           IF e.op = "Neg" /\ e.a[1].k = "Lit" /\ e.a[1].op = "Int"
           THEN IF u THEN PErr ELSE ConstArith(u, -base10_parse(e.a[1].n))
           ELSE LET x == const_eval(u, e.a[1])
                IN  IF x.tag = "Error" THEN PErr
                    ELSE CASE e.op = "Not" ->
                                PVal(IF u THEN ReprMAX(u) - x.val ELSE Not(x.val))
                           [] e.op = "Neg" ->
                                IF u THEN PErr ELSE ConstArith(u, -x.val)
                           [] OTHER -> PErr
      [] e.k = "Binary" ->
           LET l == const_eval(u, e.a[1])
               r == const_eval(u, e.b[1])
           IN  IF l.tag = "Error" \/ r.tag = "Error" THEN PErr
               ELSE CASE e.op = "Add" -> ConstArith(u, l.val + r.val)
                      [] e.op = "Sub" -> ConstArith(u, l.val - r.val)
                      [] e.op = "Mul" -> ConstArith(u, l.val * r.val)
                      [] e.op = "Div" ->
                           IF r.val = 0 THEN PErr
                           ELSE ConstArith(u, TruncDiv(l.val, r.val))
                      [] e.op = "Rem" ->
                           IF r.val = 0 \/ ~InRepr(u, TruncDiv(l.val, r.val)) THEN PErr
                           ELSE PVal(TruncRem(l.val, r.val))
                      [] e.op = "BitXor" -> PVal(BitXor(l.val, r.val))
                      [] e.op = "BitAnd" -> PVal(BitAnd(l.val, r.val))
                      [] e.op = "BitOr" -> PVal(BitOr(l.val, r.val))
                      [] e.op = "Shl" ->
                           IF r.val < 0 \/ r.val >= Bits THEN PErr
                           ELSE PVal(WrapRepr(u, l.val * 2^r.val))
                      [] OTHER -> PErr
      [] e.k \in {"Group", "Paren"} -> const_eval(u, e.a[1])
      [] OTHER -> PErr

\* Parse for BoundedInteger: the range of the declaration.  A struct keeps
\* its bounds as expressions, a half-open upper bound as `#to - 1`; an enum
\* needs both bounds and evaluates them, the lower one first.
ParseFailed(e) == [ok |-> FALSE, err |-> e, from |-> <<>>, to |-> <<>>]
parse(d) ==
    IF d.kind = "struct"
    THEN [ok |-> TRUE, err |-> EOk(0),
          from |-> d.from,
          to |-> IF d.to = NoBound THEN NoBound
                 ELSE IF d.limits = "HalfOpen"
                      THEN <<verbatim_minus_one(d.to[1])>>
                      ELSE d.to]
    ELSE IF d.from = NoBound \/ d.to = NoBound
         THEN ParseFailed(EErr("the bounds of an enum range must be closed"))
         ELSE LET from == eval_expr(d.from[1])
              IN  IF from.tag # "Ok" THEN ParseFailed(from)
                  ELSE LET to == eval_expr(d.to[1])
                       IN  IF to.tag # "Ok" THEN ParseFailed(to)
                           ELSE [ok |-> TRUE, err |-> EOk(0),
                                 from |-> <<from.val>>,
                                 to |-> <<IF d.limits = "HalfOpen"
                                          THEN to.val - 1 ELSE to.val>>]

\* (the name formatted from i itself instead of its absolute value)
enum_variant_signed(i) ==
    IF i < 0 THEN "N" \o ToString(i)
    ELSE IF i = 0 THEN "Z0"
    ELSE "P" \o ToString(i)
\* enum_variant: the name of the variant of value i.
enum_variant(i) ==
    IF i < 0 THEN "N" \o ToString(Abs(i))
    ELSE IF i = 0 THEN "Z0"
    ELSE "P" \o ToString(i)

\* generate_item: the variants of an enum, in order; only the first carries
\* an explicit value.
variants(d, range) ==
    IF d.kind = "struct" THEN <<>>
    ELSE [k \in 1..(range.to[1] - range.from[1] + 1) |->
            [name |-> enum_variant(range.from[1] + k - 1),
             value |-> IF k = 1 THEN <<range.from[1]>> ELSE <<>>]]
\* The discriminant the compiler gives the k-th variant: its explicit value,
\* or one more than the previous variant's.
RECURSIVE Discriminant(_, _)
Discriminant(vs, k) ==
    IF vs[k].value # <<>> THEN vs[k].value[1]
    ELSE IF k = 1 THEN 0
    ELSE Discriminant(vs, k - 1) + 1

\* generate_consts: MIN_VALUE and MAX_VALUE as the compiler evaluates them.
min_value(d, range) ==
    IF d.kind = "struct"
    THEN IF range.from = NoBound THEN PVal(ReprMIN(d.unsigned))
         ELSE const_eval(d.unsigned, range.from[1])
    ELSE ConstArith(d.unsigned, range.from[1])
max_value(d, range) ==
    IF d.kind = "struct"
    THEN IF range.to = NoBound THEN PVal(ReprMAX(d.unsigned))
         ELSE const_eval(d.unsigned, range.to[1])
    ELSE ConstArith(d.unsigned, range.to[1])
\* generate_consts: the variants named by MIN and MAX of an enum.
min_variant(d, range) == IF d.kind = "struct" THEN "" ELSE enum_variant(range.from[1])
max_variant(d, range) == IF d.kind = "struct" THEN "" ELSE enum_variant(range.to[1])
\* const RANGE: repr = Self::MAX_VALUE - Self::MIN_VALUE + 1;
RANGE(u, lo, hi) ==
    LET diff == ConstArith(u, hi - lo)
    IN  IF diff.tag = "Error" THEN PErr ELSE ConstArith(u, diff.val + 1)

\* generate_base: which side of the range is checked.
low_bounded(d, range) == IF d.kind = "struct" THEN range.from # NoBound ELSE TRUE
high_bounded(d, range) == IF d.kind = "struct" THEN range.to # NoBound ELSE TRUE

NoItem == [status |-> "none", error |-> "", kind |-> "",
           unsigned |-> FALSE, overflow_checks |-> FALSE,
           low_bounded |-> FALSE, high_bounded |-> FALSE,
           range |-> <<>>, variants |-> <<>>, MIN |-> "", MAX |-> "",
           MIN_VALUE |-> 0, MAX_VALUE |-> 0, RANGE |-> 0]

\* bounded_integer!: parse the declaration, emit the item and its impl; the
\* emitted item and consts are then compiled.  An enum whose MIN or MAX names
\* a variant it does not have fails to compile.
bounded_integer(d) ==
    LET range == parse(d)
    IN  IF ~range.ok
        THEN [NoItem EXCEPT !.status = IF range.err.tag = "Panic" THEN "panic"
                                       ELSE "parse_error",
                            !.error = range.err.err,
                            !.kind = d.kind]
        ELSE LET lo == min_value(d, range)
                 hi == max_value(d, range)
                 rg == IF lo.tag = "Error" \/ hi.tag = "Error" THEN PErr
                       ELSE RANGE(d.unsigned, lo.val, hi.val)
                 vs == variants(d, range)
             IN  [status |-> IF rg.tag = "Error" \/ (d.kind = "enum" /\ vs = <<>>)
                             THEN "compile_error" ELSE "ok",
                  error |-> "",
                  kind |-> d.kind,
                  unsigned |-> d.unsigned,
                  overflow_checks |-> d.overflow_checks,
                  low_bounded |-> low_bounded(d, range),
                  high_bounded |-> high_bounded(d, range),
                  range |-> IF d.kind = "enum" THEN <<range.from[1], range.to[1]>>
                            ELSE <<>>,
                  variants |-> vs,
                  MIN |-> min_variant(d, range),
                  MAX |-> max_variant(d, range),
                  MIN_VALUE |-> lo.val,
                  MAX_VALUE |-> hi.val,
                  RANGE |-> rg.val]

\* ------------------------------------------------------- the generated base
new_unchecked(it, n) == <<n>>
get(s) == s[1]
MIN(it) == <<it.MIN_VALUE>>
MAX(it) == <<it.MAX_VALUE>>
low_check(it, n) == IF it.low_bounded THEN n >= it.MIN_VALUE ELSE TRUE
\* (a strict upper comparison, as a slip in the high check would give)
high_check_strict(it, n) == IF it.high_bounded THEN n < it.MAX_VALUE ELSE TRUE
high_check(it, n) == IF it.high_bounded THEN n <= it.MAX_VALUE ELSE TRUE
in_range(it, n) == low_check(it, n) /\ high_check(it, n)
\* (new without its range check)
new_unvalidated(it, n) == Some(new_unchecked(it, n))
new(it, n) == IF in_range(it, n) THEN Some(new_unchecked(it, n)) ELSE None
\* (new_saturating with the two clamps exchanged)
new_saturating_swapped(it, n) ==
    IF ~low_check(it, n) THEN MAX(it)
    ELSE IF ~high_check(it, n) THEN MIN(it)
    ELSE new_unchecked(it, n)
new_saturating(it, n) ==
    IF ~low_check(it, n) THEN MIN(it)
    ELSE IF ~high_check(it, n) THEN MAX(it)
    ELSE new_unchecked(it, n)
\* (n + (RANGE - MIN_VALUE.rem_euclid(RANGE))).rem_euclid(RANGE) + MIN_VALUE,
\* each step in the primitive representation.
new_wrapping(it, n) ==
    LET u == it.unsigned
        oc == it.overflow_checks
        m == PrimRemEuclid(u, it.MIN_VALUE, it.RANGE)
        k == IF m.tag = "Panic" THEN PPanic ELSE Arith(u, oc, it.RANGE - m.val)
        s == IF k.tag = "Panic" THEN PPanic ELSE Arith(u, oc, n + k.val)
        t == IF s.tag = "Panic" THEN PPanic ELSE PrimRemEuclid(u, s.val, it.RANGE)
        w == IF t.tag = "Panic" THEN PPanic ELSE Arith(u, oc, t.val + it.MIN_VALUE)
    IN  IF w.tag = "Panic" THEN Panic ELSE Value(new_unchecked(it, w.val))

\* Option::expect
expect(o) == IF o.tag = "Some" THEN Value(o.val) ELSE Panic

\* --------------------------------------------------- the operator tables
OPERATORS == <<
    [method |-> "add", bin |-> TRUE, on_unsigned |-> TRUE],
    [method |-> "sub", bin |-> TRUE, on_unsigned |-> TRUE],
    [method |-> "mul", bin |-> TRUE, on_unsigned |-> TRUE],
    [method |-> "div", bin |-> TRUE, on_unsigned |-> TRUE],
    [method |-> "rem", bin |-> TRUE, on_unsigned |-> TRUE],
    [method |-> "neg", bin |-> FALSE, on_unsigned |-> FALSE] >>

CHECKED_OPERATORS == <<
    [name |-> "add", rhs |-> "Self", saturating |-> TRUE, on_unsigned |-> "All"],
    [name |-> "sub", rhs |-> "Self", saturating |-> TRUE, on_unsigned |-> "All"],
    [name |-> "mul", rhs |-> "Self", saturating |-> TRUE, on_unsigned |-> "All"],
    [name |-> "div", rhs |-> "Self", saturating |-> FALSE, on_unsigned |-> "All"],
    [name |-> "div_euclid", rhs |-> "Self", saturating |-> FALSE, on_unsigned |-> "All"],
    [name |-> "rem", rhs |-> "Self", saturating |-> FALSE, on_unsigned |-> "All"],
    [name |-> "rem_euclid", rhs |-> "Self", saturating |-> FALSE, on_unsigned |-> "All"],
    [name |-> "neg", rhs |-> "None", saturating |-> TRUE, on_unsigned |-> "NoSaturating"],
    [name |-> "abs", rhs |-> "None", saturating |-> TRUE, on_unsigned |-> "None"],
    [name |-> "pow", rhs |-> "u32", saturating |-> TRUE, on_unsigned |-> "All"] >>

\* ------------------------------------------------- the generated operators
\* generate_operators
abs(it, s) ==
    LET p == PrimOp(it.unsigned, it.overflow_checks, "abs", get(s), 0)
    IN  IF p.tag = "Panic" THEN Panic ELSE expect(new(it, p.val))
pow(it, s, exp) ==
    LET p == PrimOp(it.unsigned, it.overflow_checks, "pow", get(s), exp)
    IN  IF p.tag = "Panic" THEN Panic ELSE expect(new(it, p.val))
div_euclid(it, s, rhs) ==
    LET p == PrimOp(it.unsigned, it.overflow_checks, "div_euclid", get(s), rhs)
    IN  IF p.tag = "Panic" THEN Panic ELSE expect(new(it, p.val))
rem_euclid(it, s, rhs) ==
    LET p == PrimOp(it.unsigned, it.overflow_checks, "rem_euclid", get(s), rhs)
    IN  IF p.tag = "Panic" THEN Panic ELSE expect(new(it, p.val))

\* generate_ops_traits: the body of a binary operator with a primitive rhs
binop(it, method, s, rhs) ==
    LET p == PrimOp(it.unsigned, it.overflow_checks, method, get(s), rhs)
    IN  IF p.tag = "Panic" THEN Panic ELSE expect(new(it, p.val))
\* generate_ops_traits: the body of a unary operator
unop(it, method, s) ==
    LET p == PrimOp(it.unsigned, it.overflow_checks, method, get(s), 0)
    IN  IF p.tag = "Panic" THEN Panic ELSE expect(new(it, p.val))
\* (the same-type operator with its operands exchanged)
binop_self_swapped(it, method, s, rhs) == binop(it, method, rhs, get(s))
\* generate_ops_traits: the body of a binary operator whose right operand is
\* of the bounded type: <Self as Trait<repr>>::method(self, rhs.get())
binop_self(it, method, s, rhs) == binop(it, method, s, get(rhs))
\* a shared reference and its dereference
Ref(x) == [deref |-> x]
Deref(r) == r.deref
\* binop_trait_variations: the impls of a binary operator for a right operand
\* of type repr or Self, each operand taken by value or by reference
RhsTypes == {"repr", "Self"}
Forms == {"value_value", "ref_value", "value_ref", "ref_ref"}
binop_body(it, method, rhs_type, s, rhs) ==
    IF rhs_type = "Self" THEN binop_self(it, method, s, rhs)
    ELSE binop(it, method, s, rhs)
binop_trait_variations(it, method, rhs_type, form, lhs, rhs) ==
    CASE form = "value_value" -> binop_body(it, method, rhs_type, lhs, rhs)
      [] form = "ref_value" -> binop_body(it, method, rhs_type, Deref(lhs), rhs)
      [] form = "value_ref" -> binop_body(it, method, rhs_type, lhs, Deref(rhs))
      [] form = "ref_ref" -> binop_body(it, method, rhs_type, Deref(lhs), Deref(rhs))
\* the right-hand side of `*self = ...` in the two OpAssign impls
op_assign(it, method, rhs_type, by_ref, s, rhs) ==
    binop_body(it, method, rhs_type, s, IF by_ref THEN Deref(rhs) ELSE rhs)

\* the operators and methods with the default (panicking) policy
DefaultGenerated(it, op) ==
    \/ op \in {"pow", "div_euclid", "rem_euclid"}
    \/ op = "abs" /\ ~it.unsigned
    \/ \E i \in DOMAIN OPERATORS :
          /\ OPERATORS[i].method = op
          /\ ~(it.unsigned /\ ~OPERATORS[i].on_unsigned)
default_op(it, op, s, rhs) ==
    CASE op = "abs" -> abs(it, s)
      [] op = "pow" -> pow(it, s, rhs)
      [] op = "div_euclid" -> div_euclid(it, s, rhs)
      [] op = "rem_euclid" -> rem_euclid(it, s, rhs)
      [] op = "neg" -> unop(it, op, s)
      [] OTHER -> binop(it, op, s, rhs)

\* (checked_<op> left out on unsigned representations as saturating_<op> is)
CheckedGenerated_strict(it, op) ==
    \E i \in DOMAIN CHECKED_OPERATORS :
       /\ CHECKED_OPERATORS[i].name = op
       /\ ~(it.unsigned /\ CHECKED_OPERATORS[i].on_unsigned \in {"None", "NoSaturating"})
\* generate_checked_operators
CheckedGenerated(it, op) ==
    \E i \in DOMAIN CHECKED_OPERATORS :
       /\ CHECKED_OPERATORS[i].name = op
       /\ ~(it.unsigned /\ CHECKED_OPERATORS[i].on_unsigned = "None")
SaturatingGenerated(it, op) ==
    \E i \in DOMAIN CHECKED_OPERATORS :
       /\ CHECKED_OPERATORS[i].name = op
       /\ ~(it.unsigned /\ CHECKED_OPERATORS[i].on_unsigned = "None")
       /\ ~(it.unsigned /\ CHECKED_OPERATORS[i].on_unsigned = "NoSaturating")
       /\ CHECKED_OPERATORS[i].saturating
\* (checked_<op> without the re-validation by new)
checked_op_unvalidated(it, op, s, rhs) ==
    LET p == PrimChecked(it.unsigned, op, get(s), rhs)
    IN  IF p.tag = "None" THEN None ELSE Some(new_unchecked(it, p.val))
\* self.get().checked_<op>(rhs).and_then(Self::new)
checked_op(it, op, s, rhs) ==
    LET p == PrimChecked(it.unsigned, op, get(s), rhs)
    IN  IF p.tag = "None" THEN None ELSE new(it, p.val)
\* (saturating_<op> without the clamp by new_saturating)
saturating_op_unclamped(it, op, s, rhs) ==
    Value(new_unchecked(it, PrimSaturating(it.unsigned, op, get(s), rhs)))
\* Self::new_saturating(self.get().saturating_<op>(rhs))
saturating_op(it, op, s, rhs) ==
    Value(new_saturating(it, PrimSaturating(it.unsigned, op, get(s), rhs)))

\* generate_serde: Deserialize
deserialize(it, value) ==
    LET r == new(it, value)
    IN  IF r.tag = "Some" THEN OkResult(r.val) ELSE ErrResult

\* ------------------------------------------------------------ the inputs
OpNames == {"add", "sub", "mul", "div", "rem", "div_euclid", "rem_euclid",
            "neg", "abs", "pow"}
AssignOps == {"add", "sub", "mul", "div", "rem"}
\* the bounds written in the declarations: the representation's extremes,
\* bounds close to them, and the bounds of the examples -3..2 and 3..=7
BoundPts(u) == IF u THEN {ReprMIN(u), 3, 7, ReprMAX(u) - 2, ReprMAX(u)}
               ELSE {ReprMIN(u), ReprMIN(u) + 2, -3, 2, ReprMAX(u) - 2, ReprMAX(u)}
EffLo(d) == IF d.from = NoBound THEN ReprMIN(d.unsigned) ELSE d.from[1]
EffHi(d) == IF d.to = NoBound THEN ReprMAX(d.unsigned)
            ELSE IF d.limits = "HalfOpen" THEN d.to[1] - 1 ELSE d.to[1]
\* the widest range whose RANGE the representation can hold
RangeFits(d) == EffHi(d) - EffLo(d) + 1 <= ReprMAX(d.unsigned)
\* the ranges declared: a non-empty range MIN_VALUE <= MAX_VALUE of at most
\* MaxSpan values, or one too wide for RANGE; a range without an end is
\* written half-open
Ranges ==
    { d \in UNION { [unsigned : {u}, overflow_checks : BOOLEAN,
                     kind : {"struct", "enum"},
                     from : {NoBound} \cup { <<b>> : b \in BoundPts(u) },
                     to : {NoBound} \cup { <<b>> : b \in BoundPts(u) },
                     limits : {"HalfOpen", "Closed"}] : u \in BOOLEAN } :
        /\ d.to = NoBound => d.limits = "HalfOpen"
        /\ EffLo(d) <= EffHi(d)
        /\ EffHi(d) - EffLo(d) < MaxSpan \/ ~RangeFits(d) }
\* the decimal digits of a natural number, and the expression that writes an
\* integer: a literal, negated when the integer is negative
RECURSIVE Digits(_)
Digits(n) == IF n < 10 THEN <<n>> ELSE Append(Digits(n \div 10), n % 10)
Written(b) == IF b < 0 THEN Unary("Neg", Lit(Digits(-b))) ELSE Lit(Digits(b))
WrittenBound(b) == IF b = NoBound THEN NoBound ELSE <<Written(b[1])>>
\* the declarations: each range with its bounds written as literals
Decls ==
    { [d EXCEPT !.from = WrittenBound(d.from), !.to = WrittenBound(d.to)] :
        d \in Ranges }
\* the bound expressions: operators the evaluator supports and some it does
\* not (dereference, shift, comparison, a path, a call, a float literal)
UnOps == {"Not", "Neg", "Deref"}
BinOps == {"Add", "Sub", "Mul", "Div", "Rem", "BitXor", "BitAnd", "BitOr",
           "Shl", "Lt"}
Atoms == { Lit(<<n>>) : n \in 0..MaxLit } \cup {Path}
\* an operand as it has to be written for the parser to give this tree: in
\* parentheses when it binds more loosely than its place allows
LeftOperand(op, e) ==
    IF e.k = "Binary" /\ (Prec(e.op) < Prec(op) \/ (op = "Lt" /\ e.op = "Lt"))
    THEN Paren(e) ELSE e
RightOperand(op, e) ==
    IF e.k = "Binary" /\ Prec(e.op) <= Prec(op) THEN Paren(e) ELSE e
UnaryOperand(e) == IF e.k = "Binary" THEN Paren(e) ELSE e
Level1 ==
    Atoms
    \cup { Unary(op, e) : op \in UnOps, e \in Atoms }
    \cup { Binary(op, l, r) : op \in BinOps, l \in Atoms, r \in Atoms }
    \cup { Paren(e) : e \in Atoms } \cup { Group(e) : e \in Atoms }
Level2 ==
    { Unary(op, UnaryOperand(e)) : op \in UnOps, e \in Level1 }
    \cup { Binary(op, LeftOperand(op, l), r) : op \in BinOps, l \in Level1, r \in Atoms }
    \cup { Binary(op, l, RightOperand(op, r)) : op \in BinOps, l \in Atoms, r \in Level1 }
\* the expressions of the documentation and of the tests
Examples ==
    { Lit(<<5>>), Unary("Neg", Lit(<<3>>)),
      Binary("Add", Lit(<<6>>), Lit(<<2>>)),
      Binary("Sub", Binary("Mul", Lit(<<3>>), Lit(<<4>>)), Lit(<<1>>)),
      Binary("Mul", Group(Binary("Add", Lit(<<1>>), Lit(<<2>>))), Lit(<<2>>)),
      Binary("Div", Unary("Neg", Lit(<<7>>)), Lit(<<2>>)),
      Binary("Rem", Unary("Neg", Lit(<<7>>)), Lit(<<2>>)),
      Binary("Div", Lit(<<7>>), Lit(<<0>>)),
      Binary("Add", Path, Lit(<<1>>)),
      Lit(<<1, 2>>), Lit(<<7>>), LitFloat, ExprCall }
Exprs == Level1 \cup Level2 \cup Examples
\* the declarations given to the macro alone: every kind of range over the
\* smaller expressions, and closed enum ranges from 0 to each expression
EvalDecls ==
    [unsigned : BOOLEAN, overflow_checks : {TRUE}, kind : {"struct", "enum"},
     from : {NoBound, <<Written(-8)>>, <<Written(0)>>, <<Written(3)>>, <<Path>>},
     to : {NoBound} \cup { <<e>> : e \in Level1 \cup Examples },
     limits : {"HalfOpen", "Closed"}]
    \cup [unsigned : {FALSE}, overflow_checks : {TRUE}, kind : {"enum"},
          from : {<<Written(0)>>}, to : { <<e>> : e \in Exprs },
          limits : {"Closed"}]
\* the primitive values passed to the generated functions: those within Near
\* of the representation's extremes, of zero and of the bounds
Operands(it) ==
    { n \in ((ReprMIN(it.unsigned))..(ReprMIN(it.unsigned) + Near - 1))
            \cup ((ReprMAX(it.unsigned) - Near + 1)..(ReprMAX(it.unsigned)))
            \cup ((-Near)..Near)
            \cup ((it.MIN_VALUE - Near)..(it.MIN_VALUE + Near))
            \cup ((it.MAX_VALUE - Near)..(it.MAX_VALUE + Near)) :
        InRepr(it.unsigned, n) }
Rhs(it, op) == IF op \in {"neg", "abs"} THEN {0}
               ELSE IF op = "pow" THEN 0..MaxExp
               ELSE Operands(it)

\* ------------------------------------------------------ the state machine
VARIABLES decl, pc, item, v, last
vars == <<decl, pc, item, v, last>>

NoValue == <<>>
NoCall == [fn |-> "none", op |-> "none", a |-> 0, rhs |-> 0, out |-> None]
Call(fn, op, a, rhs, out) == [fn |-> fn, op |-> op, a |-> a, rhs |-> rhs, out |-> out]

Init ==
    /\ decl \in Decls
    /\ pc = "declared"
    /\ item = NoItem
    /\ v = NoValue
    /\ last = NoCall

\* the macro is expanded and the generated item compiled
Expand ==
    /\ pc = "declared"
    /\ pc' = "ready"
    /\ item' = bounded_integer(decl)
    /\ UNCHANGED <<decl, v, last>>

\* the macro alone, on every declaration of EvalDecls
EvalInit ==
    /\ decl \in EvalDecls
    /\ pc = "declared"
    /\ item = NoItem
    /\ v = NoValue
    /\ last = NoCall
EvalNext == Expand
SpecEval == EvalInit /\ [][EvalNext]_vars

Usable == pc = "ready" /\ item.status = "ok"

CallInRange ==
    /\ Usable
    /\ \E n \in Operands(item) :
          last' = Call("base", "in_range", 0, n, Bool(in_range(item, n)))
    /\ pc' = "returned"
    /\ UNCHANGED <<decl, item, v>>

\* let v = S::new(n): the variable is set when the result is Some
CallNew ==
    /\ Usable
    /\ \E n \in Operands(item) :
          LET r == new(item, n)
          IN  /\ last' = Call("base", "new", 0, n, r)
              /\ v' = IF r.tag = "Some" THEN r.val ELSE v
    /\ pc' = "returned"
    /\ UNCHANGED <<decl, item>>

CallNewSaturating ==
    /\ Usable
    /\ \E n \in Operands(item) :
          LET r == new_saturating(item, n)
          IN  /\ last' = Call("base", "new_saturating", 0, n, Value(r))
              /\ v' = r
    /\ pc' = "returned"
    /\ UNCHANGED <<decl, item>>

CallNewWrapping ==
    /\ Usable
    /\ \E n \in Operands(item) :
          LET r == new_wrapping(item, n)
          IN  /\ last' = Call("base", "new_wrapping", 0, n, r)
              /\ v' = IF r.tag = "Value" THEN r.val ELSE v
    /\ pc' = "returned"
    /\ UNCHANGED <<decl, item>>

Deserialize ==
    /\ Usable
    /\ \E n \in Operands(item) :
          LET r == deserialize(item, n)
          IN  /\ last' = Call("serde", "deserialize", 0, n, r)
              /\ v' = IF r.tag = "Ok" THEN r.val ELSE v
    /\ pc' = "returned"
    /\ UNCHANGED <<decl, item>>

\* v op r, -v, v.abs(), v.pow(e), v.div_euclid(r), v.rem_euclid(r)
DefaultOp ==
    /\ Usable
    /\ v # NoValue
    /\ \E op \in OpNames :
          /\ DefaultGenerated(item, op)
          /\ \E r \in Rhs(item, op) :
                last' = Call("default", op, get(v), r, default_op(item, op, v, r))
    /\ pc' = "returned"
    /\ UNCHANGED <<decl, item, v>>

\* v op= r: *self = <Self as Op<repr>>::op(*self, rhs)
OpAssign ==
    /\ Usable
    /\ v # NoValue
    /\ \E op \in AssignOps :
          \E r \in Rhs(item, op) :
             LET res == binop(item, op, v, r)
             IN  /\ last' = Call("assign", op, get(v), r, res)
                 /\ v' = IF res.tag = "Value" THEN res.val ELSE v
    /\ pc' = "returned"
    /\ UNCHANGED <<decl, item>>

\* the right operand as the impl takes it: of type repr or Self, by value or
\* by reference
Operand(it, rhs_type, by_ref, r) ==
    LET x == IF rhs_type = "Self" THEN new_unchecked(it, r) ELSE r
    IN  IF by_ref THEN Ref(x) ELSE x
\* the right operands of a type: a bounded value is one of the range
RhsOf(it, op, rhs_type) ==
    { r \in Rhs(it, op) : rhs_type = "Self" => in_range(it, r) }
FnName(rhs_type, form) == rhs_type \o ":" \o form

\* v op r in one of the forms of binop_trait_variations
BinopVariation ==
    /\ Usable
    /\ v # NoValue
    /\ \E op \in AssignOps, rhs_type \in RhsTypes, form \in Forms :
          /\ DefaultGenerated(item, op)
          /\ \E r \in RhsOf(item, op, rhs_type) :
                LET lhs == IF form \in {"ref_value", "ref_ref"} THEN Ref(v) ELSE v
                    rhs == Operand(item, rhs_type, form \in {"value_ref", "ref_ref"}, r)
                IN  last' = Call(FnName(rhs_type, form), op, get(v), r,
                                 binop_trait_variations(item, op, rhs_type, form, lhs, rhs))
    /\ pc' = "returned"
    /\ UNCHANGED <<decl, item, v>>

\* v op= r with a right operand of the bounded type or taken by reference
OpAssignVariation ==
    /\ Usable
    /\ v # NoValue
    /\ \E op \in AssignOps, rhs_type \in RhsTypes, by_ref \in BOOLEAN :
          /\ ~(rhs_type = "repr" /\ ~by_ref)
          /\ \E r \in RhsOf(item, op, rhs_type) :
                LET res == op_assign(item, op, rhs_type, by_ref, v,
                                     Operand(item, rhs_type, by_ref, r))
                IN  /\ last' = Call(FnName(rhs_type,
                                           IF by_ref THEN "assign_ref" ELSE "assign"),
                                    op, get(v), r, res)
                    /\ v' = IF res.tag = "Value" THEN res.val ELSE v
    /\ pc' = "returned"
    /\ UNCHANGED <<decl, item>>

CheckedOp ==
    /\ Usable
    /\ v # NoValue
    /\ \E op \in OpNames :
          /\ CheckedGenerated(item, op)
          /\ \E r \in Rhs(item, op) :
                last' = Call("checked", op, get(v), r, checked_op(item, op, v, r))
    /\ pc' = "returned"
    /\ UNCHANGED <<decl, item, v>>

SaturatingOp ==
    /\ Usable
    /\ v # NoValue
    /\ \E op \in OpNames :
          /\ SaturatingGenerated(item, op)
          /\ \E r \in Rhs(item, op) :
                last' = Call("saturating", op, get(v), r, saturating_op(item, op, v, r))
    /\ pc' = "returned"
    /\ UNCHANGED <<decl, item, v>>

\* the caller is done with the result of the call
Return ==
    /\ pc = "returned"
    /\ pc' = "ready"
    /\ last' = NoCall
    /\ UNCHANGED <<decl, item, v>>

Next ==
    \/ Expand
    \/ CallInRange
    \/ CallNew
    \/ CallNewSaturating
    \/ CallNewWrapping
    \/ Deserialize
    \/ DefaultOp
    \/ OpAssign
    \/ BinopVariation
    \/ OpAssignVariation
    \/ CheckedOp
    \/ SaturatingOp
    \/ Return

Spec == Init /\ [][Next]_vars

\* ------------------------------------------------------------- the claims
InBounds(it, x) == it.MIN_VALUE <= x /\ x <= it.MAX_VALUE
HoldsValue(out) == out.tag \in {"Some", "Value", "Ok"}

\* the exact results over the mathematical integers; a power is exact while
\* its magnitude is at most 2^Bits and stays beyond it, with its sign, after
RECURSIVE Power(_, _)
Power(b, e) ==
    IF e = 0 THEN 1
    ELSE LET p == Power(b, e - 1)
         IN  IF Abs(p) > 2^Bits THEN (IF b < 0 THEN -p ELSE p) ELSE b * p
EuclidRem(a, b) == a % Abs(b)
EuclidDiv(a, b) == TruncDiv(a - EuclidRem(a, b), b)
DivisionFamily == {"div", "rem", "div_euclid", "rem_euclid"}
MathDefined(op, r) == ~(op \in DivisionFamily /\ r = 0)
MathOp(op, a, r) ==
    CASE op = "add" -> a + r
      [] op = "sub" -> a - r
      [] op = "mul" -> a * r
      [] op = "div" -> TruncDiv(a, r)
      [] op = "rem" -> TruncRem(a, r)
      [] op = "div_euclid" -> EuclidDiv(a, r)
      [] op = "rem_euclid" -> EuclidRem(a, r)
      [] op = "neg" -> -a
      [] op = "abs" -> Abs(a)
      [] op = "pow" -> Power(a, r)
\* the primitive step cannot be carried out in the representation
PrimFails(u, op, a, r) ==
    \/ ~MathDefined(op, r)
    \/ ~InRepr(u, MathOp(op, a, r))
    \/ op \in DivisionFamily /\ ~InRepr(u, TruncDiv(a, r))

\* C1: every bounded value that exists, the variable's and the one an
\* operation has just produced, lies in [MIN_VALUE, MAX_VALUE].
C1_RangeInvariant ==
    item.status = "ok" =>
        /\ v # NoValue => InBounds(item, get(v))
        /\ HoldsValue(last.out) => InBounds(item, get(last.out.val))
\* a compound assignment has stored a new value
C1_Witness ==
    /\ last.fn = "assign"
    /\ last.out.tag = "Value"
    /\ get(v) # last.a

\* C2: in_range(n) is MIN_VALUE <= n <= MAX_VALUE, new(n) is Some exactly
\* when in_range(n), and the value it holds is n.
C2_ConstructionAgreement ==
    /\ last.op = "in_range" =>
          ((last.out.tag = "True") <=> InBounds(item, last.rhs))
    /\ last.op = "new" =>
          /\ (last.out.tag = "Some") <=> in_range(item, last.rhs)
          /\ (last.out.tag = "Some") <=> InBounds(item, last.rhs)
          /\ last.out.tag = "Some" => get(last.out.val) = last.rhs
\* new succeeded on a struct whose lower bound is omitted
C2_Witness ==
    /\ last.op = "new"
    /\ last.out.tag = "Some"
    /\ ~item.low_bounded

\* C3: new_saturating(n) is MIN_VALUE below the range, MAX_VALUE above it
\* and n inside it.
C3_SaturationCorrect ==
    last.op = "new_saturating" =>
        /\ last.out.tag = "Value"
        /\ get(last.out.val) =
              IF last.rhs < item.MIN_VALUE THEN item.MIN_VALUE
              ELSE IF last.rhs > item.MAX_VALUE THEN item.MAX_VALUE
              ELSE last.rhs
\* a value above the range was clamped to MAX_VALUE
C3_Witness ==
    /\ last.op = "new_saturating"
    /\ last.rhs > item.MAX_VALUE
    /\ get(last.out.val) = item.MAX_VALUE

\* C4: new_wrapping(n).get() is ((n - MIN_VALUE) mod RANGE) + MIN_VALUE with
\* the Euclidean remainder over the mathematical integers, for every n.
C4_WrappingCorrect ==
    last.op = "new_wrapping" =>
        /\ last.out.tag = "Value"
        /\ get(last.out.val) =
              ((last.rhs - item.MIN_VALUE) % item.RANGE) + item.MIN_VALUE

\* C5: new_saturating, new_wrapping and every saturating_<op> return an
\* in-range value and never panic.
C5_ClampingNeverFails ==
    (last.op \in {"new_saturating", "new_wrapping"} \/ last.fn = "saturating") =>
        /\ last.out.tag = "Value"
        /\ InBounds(item, get(last.out.val))

\* C6: whenever a default operation returns a value, checked_<op> on the same
\* operands is Some of an equal value.
C6_CheckedDefaultAgreement ==
    (last.fn = "default" /\ last.out.tag = "Value") =>
        checked_op(item, last.op, <<last.a>>, last.rhs) = Some(last.out.val)

\* C7: checked_<op> is None when the primitive checked operation fails or its
\* result is outside [MIN_VALUE, MAX_VALUE], otherwise Some of the exact
\* mathematical result; it never panics.
C7_CheckedFamily ==
    last.fn = "checked" =>
        LET u == item.unsigned
        IN  IF PrimFails(u, last.op, last.a, last.rhs)
            THEN last.out = None
            ELSE IF ~InBounds(item, MathOp(last.op, last.a, last.rhs))
            THEN last.out = None
            ELSE last.out = Some(<<MathOp(last.op, last.a, last.rhs)>>)
\* unsigned range 3..=7: checked_sub on 3 with operand 1 is None
C7_Witness ==
    /\ last.fn = "checked"
    /\ last.op = "sub"
    /\ item.unsigned
    /\ item.MIN_VALUE = 3
    /\ item.MAX_VALUE = 7
    /\ last.a = 3
    /\ last.rhs = 1
    /\ last.out = None

\* C8: a default operator panics when the exact result is out of range, the
\* primitive step overflows or the divisor is zero; when it returns, the
\* value is the exact mathematical result.
C8_DefaultOperators ==
    (last.fn = "default" /\ last.op # "abs") =>
        /\ (\/ PrimFails(item.unsigned, last.op, last.a, last.rhs)
            \/ ~InBounds(item, MathOp(last.op, last.a, last.rhs)))
              => last.out = Panic
        /\ last.out.tag = "Value" =>
              get(last.out.val) = MathOp(last.op, last.a, last.rhs)

\* C9: abs() on the bounded value holding the representation's native minimum
\* panics.
C9_AbsOfNativeMin ==
    (last.fn = "default" /\ last.op = "abs" /\ last.a = ReprMIN(item.unsigned)) =>
        last.out = Panic

\* C10: for every declaration the generator accepts, RANGE is computed
\* without overflow and is the number of integers in [MIN_VALUE, MAX_VALUE].
C10_RangeIsCount ==
    (pc # "declared" /\ item.status # "parse_error") =>
        /\ item.status = "ok"
        /\ item.RANGE = Cardinality(EffLo(decl)..EffHi(decl))

\* ------------------------------------------------------------ the evaluator
\* The value an expression denotes, defined from the mathematics and not from
\* the evaluator: a literal is the sum of its digits' decimal weights, the
\* quotient is the integer of largest magnitude whose product with the
\* divisor does not pass the dividend, and a bitwise operator acts on the
\* bits of a two's complement window wide enough for every value that occurs.
Window == 16
Bit(x, i) == ((x % (2^Window)) \div (2^i)) % 2
Signed(x) == IF x >= 2^(Window - 1) THEN x - 2^Window ELSE x
RECURSIVE SumBits(_, _)
SumBits(f, i) == IF i < 0 THEN 0 ELSE f[i] * (2^i) + SumBits(f, i - 1)
Bitwise(op, x, y) ==
    Signed(SumBits([i \in 0..(Window - 1) |->
        CASE op = "BitAnd" -> IF Bit(x, i) = 1 /\ Bit(y, i) = 1 THEN 1 ELSE 0
          [] op = "BitOr" -> IF Bit(x, i) = 1 \/ Bit(y, i) = 1 THEN 1 ELSE 0
          [] op = "BitXor" -> IF Bit(x, i) # Bit(y, i) THEN 1 ELSE 0
          [] op = "Not" -> 1 - Bit(x, i)], Window - 1))
Quotient(a, b) ==
    CHOOSE q \in (-Abs(a))..Abs(a) :
        /\ Abs(q) * Abs(b) <= Abs(a)
        /\ Abs(a) < (Abs(q) + 1) * Abs(b)
        /\ q # 0 => ((q < 0) <=> ((a < 0) # (b < 0)))
RECURSIVE Decimal(_, _)
Decimal(digits, i) ==
    IF i > Len(digits) THEN 0
    ELSE digits[i] * (10^(Len(digits) - i)) + Decimal(digits, i + 1)
Supported(e) ==
    \/ e.k = "Lit" /\ e.op = "Int"
    \/ e.k = "Unary" /\ e.op \in {"Not", "Neg"}
    \/ e.k = "Binary" /\ e.op \in BinOps \ {"Shl", "Lt"}
    \/ e.k \in {"Group", "Paren"}
\* every node of the expression is in the evaluator's grammar
RECURSIVE InGrammar(_)
InGrammar(e) ==
    /\ Supported(e)
    /\ e.a # <<>> => InGrammar(e.a[1])
    /\ e.b # <<>> => InGrammar(e.b[1])
RECURSIVE Denotes(_)
Denotes(e) ==
    CASE e.k = "Lit" -> Decimal(e.n, 1)
      [] e.k = "Unary" /\ e.op = "Neg" -> 0 - Denotes(e.a[1])
      [] e.k = "Unary" /\ e.op = "Not" -> Bitwise("Not", Denotes(e.a[1]), 0)
      [] e.k \in {"Group", "Paren"} -> Denotes(e.a[1])
      [] e.k = "Binary" ->
           LET x == Denotes(e.a[1])
               y == Denotes(e.b[1])
           IN  CASE e.op = "Add" -> x + y
                 [] e.op = "Sub" -> x - y
                 [] e.op = "Mul" -> x * y
                 [] e.op = "Div" -> Quotient(x, y)
                 [] e.op = "Rem" -> x - y * Quotient(x, y)
                 [] OTHER -> Bitwise(e.op, x, y)
\* some divisor of the expression has a value, and it is zero
RECURSIVE ZeroDivisor(_)
ZeroDivisor(e) ==
    \/ e.a # <<>> /\ ZeroDivisor(e.a[1])
    \/ e.b # <<>> /\ ZeroDivisor(e.b[1])
    \/ e.k = "Binary" /\ e.op \in {"Div", "Rem"} /\ InGrammar(e.b[1])
         /\ ~ZeroDivisor(e.b[1]) /\ Denotes(e.b[1]) = 0
Evaluable(e) == InGrammar(e) /\ ~ZeroDivisor(e)
\* the macro has run on a closed enum range with both bounds written
ClosedEnum ==
    /\ pc = "ready" /\ decl.kind = "enum" /\ decl.limits = "Closed"
    /\ decl.from # NoBound /\ decl.to # NoBound

RECURSIVE Rejections(_)
Rejections(e) ==
    (IF Supported(e) THEN {}
     ELSE CASE e.k = "Lit" -> {"literal must be integer"}
            [] e.k = "Unary" -> {"unary operator must be ! or -"}
            [] e.k = "Binary" -> {"operator not supported in this context"}
            [] OTHER -> {"expected simple expression"})
    \cup (IF e.a = <<>> THEN {} ELSE Rejections(e.a[1]))
    \cup (IF e.b = <<>> THEN {} ELSE Rejections(e.b[1]))
Failed == item.status \in {"parse_error", "panic"}

C12_WitnessUnsupported ==
    /\ ClosedEnum
    /\ decl.from = <<Lit(<<0>>)>>
    /\ decl.to = <<Binary("Add", Path, Lit(<<1>>))>>
    /\ item.status = "parse_error"
    /\ item.error = "expected simple expression"

Name(i) ==
    CASE i < 0 -> "N" \o ToString(0 - i)
      [] i = 0 -> "Z0"
      [] i > 0 -> "P" \o ToString(i)
\* the macro has emitted an enum for a non-empty range
EnumEmitted ==
    /\ pc = "ready" /\ item.kind = "enum" /\ item.status \in {"ok", "compile_error"}
    /\ item.range[1] <= item.range[2]

\* C13: for an enum range evaluated to lo..=hi with lo <= hi, the emitted
\* variants are name(lo), ..., name(hi): hi - lo + 1 of them, pairwise
\* distinct, only the first with an explicit value, which is lo, so that the
\* k-th variant has the discriminant lo + k; MIN and MAX are the first and
\* the last variant.
C13_VariantNaming ==
    EnumEmitted =>
        LET lo == item.range[1]
            hi == item.range[2]
            vs == item.variants
        IN  /\ Len(vs) = hi - lo + 1
            /\ \A k \in 1..Len(vs) :
                  /\ vs[k].name = Name(lo + k - 1)
                  /\ vs[k].value = (IF k = 1 THEN <<lo>> ELSE <<>>)
                  /\ Discriminant(vs, k) = lo + k - 1
                  /\ k > 1 => Discriminant(vs, k) = Discriminant(vs, k - 1) + 1
            /\ \A j, k \in 1..Len(vs) : j # k => vs[j].name # vs[k].name
            /\ item.MIN = Name(lo) /\ item.MIN = vs[1].name
            /\ item.MAX = Name(hi) /\ item.MAX = vs[Len(vs)].name
\* enum { -8..6+2 } has been given the 16 variants N8 = -8, ..., Z0, ..., P7
C13_Witness ==
    /\ EnumEmitted
    /\ decl.from = <<Written(-8)>>
    /\ decl.to = <<Binary("Add", Lit(<<6>>), Lit(<<2>>))>>
    /\ decl.limits = "HalfOpen"
    /\ Len(item.variants) = 16
    /\ item.variants[1] = [name |-> "N8", value |-> <<-8>>]
    /\ item.variants[9].name = "Z0"
    /\ item.variants[16] = [name |-> "P7", value |-> <<>>]
    /\ item.MIN = "N8" /\ item.MAX = "P7"

\* ------------------------------------------------------------ the emission
Compiled == pc # "declared" /\ item.status = "ok"
Policies == {"default", "checked", "saturating"}
Generated(it, policy, op) ==
    CASE policy = "default" -> DefaultGenerated(it, op)
      [] policy = "checked" -> CheckedGenerated(it, op)
      [] policy = "saturating" -> SaturatingGenerated(it, op)
\* add, sub, mul, div, rem, div_euclid, rem_euclid and pow do not depend on
\* the signedness: default and checked forms of all, saturating forms of
\* add, sub, mul and pow.
CommonEmitted ==
    \A op \in OpNames \ {"neg", "abs"} :
        /\ Generated(item, "default", op)
        /\ Generated(item, "checked", op)
        /\ Generated(item, "saturating", op) <=> op \in {"add", "sub", "mul", "pow"}

\* C14 as first stated: an unsigned representation gets no negation and no
\* absolute value of any policy, a signed one gets all of them, and the other
\* operations are emitted for both.  (checked_neg is emitted for unsigned.)
C14_NoNegationOnUnsigned ==
    Compiled =>
        /\ \A policy \in Policies : \A op \in {"neg", "abs"} :
              Generated(item, policy, op) <=> ~item.unsigned
        /\ (item.unsigned /\ last.fn \in Policies) => last.op \notin {"neg", "abs"}
        /\ CommonEmitted

\* C14: an unsigned representation gets no Neg operator, no saturating_neg
\* and no abs, checked_abs or saturating_abs, but it does get checked_neg; a
\* signed representation gets all six; the other operations are emitted for
\* both.  Only emitted operations are ever called.
C14_UnsignedExclusion ==
    Compiled =>
        /\ \A policy \in Policies : \A op \in {"neg", "abs"} :
              Generated(item, policy, op) <=>
                  (~item.unsigned \/ (policy = "checked" /\ op = "neg"))
        /\ (item.unsigned /\ last.fn \in Policies /\ last.op \in {"neg", "abs"}) =>
              (last.fn = "checked" /\ last.op = "neg")
        /\ last.fn \in Policies => Generated(item, last.fn, last.op)
        /\ CommonEmitted
\* checked_neg has been called on an unsigned bounded integer holding 0
C14_Witness ==
    /\ Compiled /\ item.unsigned
    /\ last.fn = "checked" /\ last.op = "neg" /\ last.a = 0
    /\ last.out = Some(<<0>>)
\* checked_neg of a non-zero unsigned bounded integer is None
C14_WitnessNone ==
    /\ Compiled /\ item.unsigned
    /\ last.fn = "checked" /\ last.op = "neg" /\ last.a > 0
    /\ last.out = None

\* ----------------------------------------------------------- the operators
Clamp(x, lo, hi) == IF x < lo THEN lo ELSE IF x > hi THEN hi ELSE x

\* C15: every saturating_<op> that exists (add, sub, mul, pow, and neg and
\* abs on signed representations) returns the exact result of op clamped to
\* [MIN_VALUE, MAX_VALUE]: the primitive saturating result is the exact
\* result clamped to the representation, and new_saturating clamps it again
\* to the range.  div, rem, div_euclid and rem_euclid have no saturating form.
C15_SaturatingComposition ==
    /\ Compiled => \A op \in DivisionFamily : ~SaturatingGenerated(item, op)
    /\ last.fn = "saturating" =>
          LET u == item.unsigned
              exact == MathOp(last.op, last.a, last.rhs)
              prim == PrimSaturating(u, last.op, last.a, last.rhs)
          IN  /\ last.op \in {"add", "sub", "mul", "pow"}
                    \cup (IF u THEN {} ELSE {"neg", "abs"})
              /\ prim = Clamp(exact, ReprMIN(u), ReprMAX(u))
              /\ last.out = Value(new_saturating(item, prim))
              /\ get(last.out.val) = Clamp(exact, item.MIN_VALUE, item.MAX_VALUE)
\* a product saturated at the primitive maximum was clamped down to MAX_VALUE
C15_Witness ==
    /\ last.fn = "saturating" /\ last.op = "mul"
    /\ PrimSaturating(item.unsigned, "mul", last.a, last.rhs) = ReprMAX(item.unsigned)
    /\ item.MAX_VALUE < ReprMAX(item.unsigned)
    /\ get(last.out.val) = item.MAX_VALUE
\* a negation saturated at the primitive maximum (of the primitive minimum)
C15_WitnessNeg ==
    /\ last.fn = "saturating" /\ last.op = "neg"
    /\ last.a = ReprMIN(item.unsigned)
    /\ get(last.out.val) = item.MAX_VALUE

\* ---------------------------------------------------------- half-open ranges
\* the value of the whole upper expression: in the representation for a
\* struct, whose bounds the compiler evaluates, and as the macro's evaluator
\* has it for an enum
UpperValue ==
    IF decl.kind = "struct" THEN const_eval(decl.unsigned, decl.to[1])
    ELSE PVal(Denotes(decl.to[1]))
\* a declaration with an upper bound that has a value has been compiled
UpperCompiled ==
    /\ pc = "ready" /\ item.status = "ok"
    /\ decl.to # NoBound /\ Evaluable(decl.to[1])
    /\ UpperValue.tag = "Value"

\* C16: MAX_VALUE of a half-open range a..b is the value of the whole upper
\* expression b minus one, whatever the top-level operator of b, for structs
\* and for enums; MAX_VALUE of a closed range a..=b is the value of b.
C16_HalfOpenNormalization ==
    UpperCompiled =>
        item.MAX_VALUE = (IF decl.limits = "HalfOpen" THEN UpperValue.val - 1
                          ELSE UpperValue.val)

\* ------------------------------------------------------- operand symmetry
VariationFns == { FnName(t, f) : t \in RhsTypes, f \in Forms }
AssignFns == {"assign"} \cup { FnName(t, f) : t \in RhsTypes, f \in {"assign", "assign_ref"} }
\* what `a op r` returns for the bounded value a and the primitive r of the
\* call: the value-by-value operator with a right operand of type repr
Outcome == binop(item, last.op, new_unchecked(item, last.a), last.rhs)

\* C17: for + - * / %, the operator applied to a bounded right operand b has
\* the outcome of the operator applied to b.get(), in each of the four
\* ownership forms; `a op= r` stores exactly what `a op r` returns and panics
\* exactly when it panics.
C17_OperandSymmetry ==
    /\ last.fn \in VariationFns => last.out = Outcome
    /\ last.fn \in AssignFns =>
          /\ last.out = Outcome
          /\ Outcome.tag \in {"Value", "Panic"}
          /\ Outcome.tag = "Value" => v = Outcome.val
\* a reference to a bounded value was subtracted from a reference to another
C17_Witness ==
    /\ last.fn = FnName("Self", "ref_ref") /\ last.op = "sub"
    /\ last.a # last.rhs
    /\ last.out = Value(<<last.a - last.rhs>>)
\* v /= b with b holding zero panicked
C17_WitnessAssign ==
    /\ last.fn = FnName("Self", "assign") /\ last.op = "div"
    /\ last.rhs = 0
    /\ last.out = Panic

\* ------------------------------------------------------------------ frame
OperatorFns == {"default", "checked", "saturating"} \cup VariationFns
\* the variable still holds the operand the call was made on
Untouched == v = new_unchecked(item, last.a)

\* C18: only a compound assignment changes its operand; a compound assignment
\* whose exact result is out of range, overflows the primitive or divides by
\* zero panics and leaves the variable as it was; the variable is within
\* [MIN_VALUE, MAX_VALUE] in every state.
C18_FrameOnFailure ==
    /\ last.fn \in OperatorFns => Untouched
    /\ last.fn \in AssignFns =>
          /\ (\/ PrimFails(item.unsigned, last.op, last.a, last.rhs)
              \/ ~InBounds(item, MathOp(last.op, last.a, last.rhs)))
                => (last.out = Panic /\ Untouched)
          /\ last.out = Panic => Untouched
    /\ v # NoValue => InBounds(item, get(v))

====
